---- MODULE Spec2Model ----
(***************************************************************************)
(* A model of the filmstrip grid generator (src/src/filmstrip.py):         *)
(* natural sorting of file names, grid dimensioning, cell geometry under   *)
(* the three crop policies, composition and output naming.                 *)
(*                                                                         *)
(* Strings are sequences of one-character strings, so that splitting,      *)
(* lower-casing, replacing and formatting are computed, not assumed.       *)
(* Two characters stand for non-ASCII digits: "u3" for an Arabic-Indic     *)
(* digit three (str.isdigit() is true, int() gives 3) and "sup2" for a     *)
(* superscript two (str.isdigit() is true, int() raises ValueError).       *)
(* Python's None is the empty tuple << >>.                                 *)
(***************************************************************************)
EXTENDS Integers, Sequences, FiniteSets, TLC

VARIABLES
    dimIn,      \* num_images handed to calculate_optimal_dimensions
    dimOut,     \* its result <<cols, rows>>, << >> before the call
    sortIn,     \* the list handed to sorted(..., key=natural_sort_key)
    sortOut,    \* [status, val]: "pending", "ok", "ValueError", "TypeError"
    \* one call of create_filmstrip_from_dir or create_filmstrip
    args,       \* the arguments of the call
    pc,         \* position in the code
    image_paths, valid_images, num_images,
    cols, rows, name,
    gbox,       \* [l, t, r, b]: global_left, global_top, global_right, global_bottom
    has_valid_content,
    radius2,    \* <<2 * max_h_radius, 2 * max_v_radius>>
    scan,       \* index of the next image in a sizing loop (1-based)
    cell_width, cell_height, crop_box,
    canvas,     \* <<filmstrip_width, filmstrip_height>> once allocated
    idx,        \* enumerate() index of the next image to place (0-based)
    pastes,     \* per valid image: the paste performed, if any (done)
    opened,     \* number of Image.open calls so far
    output,     \* the file name written, None before
    error       \* the exception raised, "" if none

pure == <<dimIn, dimOut, sortIn, sortOut>>
geom == <<gbox, has_valid_content, radius2, scan, cell_width, cell_height, crop_box>>
grid == <<cols, rows, name>>
comp == <<canvas, idx, pastes, output>>
vars == <<pure, args, pc, image_paths, valid_images, num_images, grid, geom,
          comp, opened, error>>

None == << >>

\* ------------------------------------------------------------------------
\* Bounds
\* ------------------------------------------------------------------------
MaxCount == 100
MaxNameLen == 2
MaxWidth == 3
MaxHeight == 2
MaxImages == 2
MaxPadding == 1
MaxGridImages == 10
MaxOverride == 5
MaxDirFiles == 3

MinCount == 0 - 3

\* ------------------------------------------------------------------------
\* Characters
\* ------------------------------------------------------------------------
\* The characters used, in code point order.
CharOrder ==
    << " ", "-", ".", "0", "1", "2", "3", "4", "5", "6", "7", "8", "9",
       "A", "B", "C", "E", "G", "I", "M", "N", "P", "W",
       "_", "a", "b", "c", "e", "f", "g", "i", "j", "l", "m", "n", "o",
       "p", "r", "s", "t", "w", "x", "y", "sup2", "u3" >>

Ord(c) == CHOOSE i \in 1..Len(CharOrder) : CharOrder[i] = c

AsciiDigits == {"0", "1", "2", "3", "4", "5", "6", "7", "8", "9"}

\* Characters for which str.isdigit() is true.
IsDigitChars == AsciiDigits \cup {"u3", "sup2"}

\* Characters int() accepts (Unicode decimal digits).
DecimalChars == AsciiDigits \cup {"u3"}

DigitVal(c) == IF c = "u3" THEN 3 ELSE Ord(c) - Ord("0")

UpperCase == <<"A", "B", "C", "E", "G", "I", "M", "N", "P", "W">>
LowerCase == <<"a", "b", "c", "e", "g", "i", "m", "n", "p", "w">>

\* str.lower() on one character.
LowerChar(c) ==
    IF \E i \in 1..Len(UpperCase) : UpperCase[i] = c
    THEN LowerCase[CHOOSE i \in 1..Len(UpperCase) : UpperCase[i] = c]
    ELSE c

\* str.lower()
Lower(s) == [i \in 1..Len(s) |-> LowerChar(s[i])]

\* str.isdigit(): non-empty and every character a digit character.
IsDigit(s) == Len(s) > 0 /\ \A i \in 1..Len(s) : s[i] \in IsDigitChars

\* int(s) can be evaluated: every character is a decimal digit.
IntOk(s) == Len(s) > 0 /\ \A i \in 1..Len(s) : s[i] \in DecimalChars

RECURSIVE IntOf(_)
\* int(s) for a string of decimal digits.
IntOf(s) ==
    IF Len(s) = 0 THEN 0
    ELSE 10 * IntOf(SubSeq(s, 1, Len(s) - 1)) + DigitVal(s[Len(s)])

RECURSIVE StrLess(_, _)
\* Python's s < t on strings: lexicographic by code point.
StrLess(s, t) ==
    IF Len(t) = 0 THEN FALSE
    ELSE IF Len(s) = 0 THEN TRUE
    ELSE IF s[1] # t[1] THEN Ord(s[1]) < Ord(t[1])
    ELSE StrLess(Tail(s), Tail(t))

\* ------------------------------------------------------------------------
\* natural_sort_key
\* ------------------------------------------------------------------------
RECURSIVE PrefixLen(_, _)
\* Length of the longest prefix of s made of ASCII digits (digits = TRUE)
\* or of other characters (digits = FALSE).
PrefixLen(s, digits) ==
    IF Len(s) = 0 \/ ((s[1] \in AsciiDigits) # digits) THEN 0
    ELSE 1 + PrefixLen(Tail(s), digits)

RECURSIVE SplitFrom(_, _)
\* re.split('([0-9]+)', s): text, digits, text, ..., text; the text pieces
\* may be empty, the digit pieces are maximal runs of [0-9].
SplitFrom(s, digits) ==
    LET n == PrefixLen(s, digits)
    IN  IF digits
        THEN <<SubSeq(s, 1, n)>> \o SplitFrom(SubSeq(s, n + 1, Len(s)), FALSE)
        ELSE IF n = Len(s) THEN <<s>>
             ELSE <<SubSeq(s, 1, n)>> \o SplitFrom(SubSeq(s, n + 1, Len(s)), TRUE)

ReSplit(s) == SplitFrom(s, FALSE)

\* int(text) if text.isdigit() else text.lower(), for one piece.
KeyElem(text) ==
    IF IsDigit(text)
    THEN IF IntOk(text) THEN [kind |-> "int", n |-> IntOf(text), s |-> <<>>]
         ELSE [kind |-> "ValueError", n |-> 0, s |-> text]
    ELSE [kind |-> "str", n |-> 0, s |-> Lower(text)]

\* The key list; an element of kind "ValueError" means the call raised.
natural_sort_key(s) ==
    LET parts == ReSplit(s)
    IN  [i \in 1..Len(parts) |-> KeyElem(parts[i])]

KeyRaises(k) == \E i \in 1..Len(k) : k[i].kind = "ValueError"

RECURSIVE KeyLess(_, _)
\* Python's a < b on two key lists: "T", "F", or "E" for the TypeError of
\* comparing an int with a str.  The first pair of unequal elements decides.
KeyLess(a, b) ==
    IF Len(b) = 0 THEN "F"
    ELSE IF Len(a) = 0 THEN "T"
    ELSE IF a[1].kind # b[1].kind THEN "E"
    ELSE IF a[1] = b[1] THEN KeyLess(Tail(a), Tail(b))
    ELSE IF a[1].kind = "int" THEN (IF a[1].n < b[1].n THEN "T" ELSE "F")
    ELSE (IF StrLess(a[1].s, b[1].s) THEN "T" ELSE "F")

\* ------------------------------------------------------------------------
\* sorted(items, key=...) as CPython's list.sort does it for a short list:
\* the keys are computed first, then the initial run is counted (reversed
\* when strictly descending) and the rest is inserted by binary insertion.
\* Entries are [key, item]; a result is [err, val].
\* ------------------------------------------------------------------------
RECURSIVE CountRun(_, _, _)
CountRun(es, n, desc) ==
    IF n = Len(es) THEN [err |-> FALSE, n |-> n]
    ELSE LET c == KeyLess(es[n + 1].key, es[n].key)
         IN  IF c = "E" THEN [err |-> TRUE, n |-> n]
             ELSE IF (c = "T") = desc THEN CountRun(es, n + 1, desc)
             ELSE [err |-> FALSE, n |-> n]

Reverse(s) == [i \in 1..Len(s) |-> s[Len(s) + 1 - i]]

RECURSIVE BinarySearch(_, _, _, _)
\* The insertion point of pivot in the sorted prefix es[l+1..r] (0-based
\* l and r as in binarysort); -1 when a comparison raises.
BinarySearch(es, pivot, l, r) ==
    IF l >= r THEN l
    ELSE LET p == l + ((r - l) \div 2)
             c == KeyLess(pivot.key, es[p + 1].key)
         IN  IF c = "E" THEN 0 - 1
             ELSE IF c = "T" THEN BinarySearch(es, pivot, l, p)
             ELSE BinarySearch(es, pivot, p + 1, r)

RECURSIVE BinarySort(_, _)
\* es[1..start] is sorted; insert es[start+1], es[start+2], ...
BinarySort(es, start) ==
    IF start >= Len(es) THEN [err |-> FALSE, val |-> es]
    ELSE LET pivot == es[start + 1]
             l == BinarySearch(es, pivot, 0, start)
         IN  IF l < 0 THEN [err |-> TRUE, val |-> es]
             ELSE BinarySort(SubSeq(es, 1, l) \o <<pivot>>
                                \o SubSeq(es, l + 1, start)
                                \o SubSeq(es, start + 2, Len(es)),
                             start + 1)

ListSort(es) ==
    IF Len(es) < 2 THEN [err |-> FALSE, val |-> es]
    ELSE LET c == KeyLess(es[2].key, es[1].key)
         IN  IF c = "E" THEN [err |-> TRUE, val |-> es]
             ELSE LET run == CountRun(es, 2, c = "T")
                  IN  IF run.err THEN [err |-> TRUE, val |-> es]
                      ELSE BinarySort(
                              IF c = "T"
                              THEN Reverse(SubSeq(es, 1, run.n))
                                      \o SubSeq(es, run.n + 1, Len(es))
                              ELSE es,
                              run.n)

\* sorted(names, key=natural_sort_key) on a list of names.
SortedNames(names) ==
    LET es == [i \in 1..Len(names) |->
                  [key |-> natural_sort_key(names[i]), item |-> names[i]]]
    IN  IF \E i \in 1..Len(es) : KeyRaises(es[i].key)
        THEN [status |-> "ValueError", val |-> <<>>]
        ELSE LET r == ListSort(es)
             IN  IF r.err THEN [status |-> "TypeError", val |-> <<>>]
                 ELSE [status |-> "ok",
                       val |-> [i \in 1..Len(names) |-> r.val[i].item]]

\* ------------------------------------------------------------------------
\* Grid dimensioning
\* ------------------------------------------------------------------------
\* math.ceil(math.sqrt(n)) for n >= 1: the least c with c*c >= n.
CeilSqrt(n) == CHOOSE c \in 1..n : c * c >= n /\ (c - 1) * (c - 1) < n

\* math.ceil(a / b) for a >= 0, b >= 1.
CeilDiv(a, b) == (a + b - 1) \div b

calculate_optimal_dimensions_square(n) ==
    IF n <= 0 THEN <<0, 0>>
    ELSE <<CeilSqrt(n), CeilSqrt(n)>>

calculate_optimal_dimensions_floor(n) ==
    IF n <= 0 THEN <<0, 0>>
    ELSE <<CeilSqrt(n), n \div CeilSqrt(n)>>

calculate_optimal_dimensions_row(n) ==
    IF n <= 0 THEN <<0, 0>>
    ELSE <<n, 1>>

calculate_optimal_dimensions_tall(n) ==
    IF n <= 0 THEN <<0, 0>>
    ELSE <<CeilDiv(n, CeilSqrt(n)), CeilSqrt(n)>>

calculate_optimal_dimensions(n) ==
    IF n <= 0 THEN <<0, 0>>
    ELSE LET c == CeilSqrt(n)
             r == CeilDiv(n, c)
         IN  <<c, r>>

calculate_grid_size_floor(n) ==
    IF n <= 0 THEN 0 ELSE CeilSqrt(n) - (IF CeilSqrt(n) * CeilSqrt(n) = n THEN 0 ELSE 1)

calculate_grid_size(n) ==
    IF n <= 0 THEN 0 ELSE CeilSqrt(n)

Max2(a, b) == IF a >= b THEN a ELSE b
Min2(a, b) == IF a <= b THEN a ELSE b
Range(s) == {s[k] : k \in 1..Len(s)}

\* ------------------------------------------------------------------------
\* Files and images
\* ------------------------------------------------------------------------
\* A path: its file name, whether it exists, and what the codec makes of it:
\*   "ok"          decodes; w, h its size, bbox = getbbox() (None: no content)
\*   "truncated"   Image.open reads the header (w, h), loading pixels raises
\*   "unreadable"  Image.open raises
\*   "missing"     the path does not exist
File(nm, k, w, h, bb) == [name |-> nm, kind |-> k, w |-> w, h |-> h, bbox |-> bb]

ExistsAlways(p) == TRUE

\* Path.exists()
Exists(p) == p.kind # "missing"

\* The boxes getbbox() can return for a w x h image: (left, top, right, bottom)
\* with 0 <= left < right <= w and 0 <= top < bottom <= h.
BBoxes(w, h) ==
    {bb \in (0..(w - 1)) \X (0..(h - 1)) \X (1..w) \X (1..h) :
        bb[1] < bb[3] /\ bb[2] < bb[4]}

\* float('inf')
Inf == 1000000

RECURSIVE SelectSeq2(_, _)
\* [p for p in s if Test(p)], for the tests used below
SelectSeq2(s, keep) ==
    IF Len(s) = 0 THEN <<>>
    ELSE (IF s[1] \in keep THEN <<s[1]>> ELSE <<>>) \o SelectSeq2(Tail(s), keep)

\* ------------------------------------------------------------------------
\* Path.suffix, the extension filter, the output name
\* ------------------------------------------------------------------------
\* str.rfind('.') as a 1-based position, 0 when there is none
RFindDot(s) ==
    IF \E k \in 1..Len(s) : s[k] = "."
    THEN CHOOSE k \in 1..Len(s) : s[k] = "." /\ \A m \in (k + 1)..Len(s) : s[m] # "."
    ELSE 0

\* pathlib's PurePath.suffix: from the last dot on, unless the name starts
\* or ends with that dot.
Suffix(nm) ==
    LET k == RFindDot(nm)
    IN  IF 1 < k /\ k < Len(nm) THEN SubSeq(nm, k, Len(nm)) ELSE <<>>

valid_extensions ==
    { <<".", "p", "n", "g">>, <<".", "j", "p", "g">>, <<".", "j", "p", "e", "g">>,
      <<".", "w", "e", "b", "p">>, <<".", "b", "m", "p">>, <<".", "g", "i", "f">> }

\* glob('*.*'): the names that contain a dot
GlobMatches(nm) == \E k \in 1..Len(nm) : nm[k] = "."

\* name.replace(' ', '-')
Sanitize(s) == [k \in 1..Len(s) |-> IF s[k] = " " THEN "-" ELSE s[k]]

DigitChar(d) == CharOrder[Ord("0") + d]

RECURSIVE NatToStr(_)
NatToStr(n) ==
    IF n < 10 THEN <<DigitChar(n)>>
    ELSE NatToStr(n \div 10) \o <<DigitChar(n % 10)>>

\* f"{n}" for an integer
IntToStr(n) == IF n < 0 THEN <<"-">> \o NatToStr(0 - n) ELSE NatToStr(n)

\* f"{name}_{cell_width}x{cell_height}_{num_images}_{cols}x{rows}.{extension}"
FileName(nm, cw, ch, n, c, r, fmt) ==
    nm \o <<"_">> \o IntToStr(cw) \o <<"x">> \o IntToStr(ch) \o <<"_">>
       \o IntToStr(n) \o <<"_">> \o IntToStr(c) \o <<"x">> \o IntToStr(r)
       \o <<".">> \o Lower(fmt)

\* ------------------------------------------------------------------------
\* get_max_dimensions
\* ------------------------------------------------------------------------
RECURSIVE MaxOver(_, _)
\* max(0, f over the images whose header can be read)
MaxOver(imgs, field) ==
    IF Len(imgs) = 0 THEN 0
    ELSE LET rest == MaxOver(Tail(imgs), field)
             v == IF imgs[1].kind \in {"ok", "truncated"}
                  THEN imgs[1][field] ELSE 0
         IN  IF v > rest THEN v ELSE rest

get_max_dimensions(imgs) == <<MaxOver(imgs, "w"), MaxOver(imgs, "h")>>

\* ------------------------------------------------------------------------
\* The state before a call, and the locals before they are assigned
\* ------------------------------------------------------------------------
NoBox == [l |-> Inf, t |-> Inf, r |-> 0, b |-> 0]
NoCrop == [tag |-> "None", a |-> 0, b |-> 0, c |-> 0, d |-> 0]
NoPaste ==
    [x |-> 0, y |-> 0, w |-> 0, h |-> 0, ox |-> 0, oy |-> 0,
     cropped |-> FALSE, done |-> FALSE]

NoArgs ==
    [mode |-> "none", is_dir |-> FALSE, listing |-> <<>>, paths |-> <<>>,
     name |-> <<>>, grid_size |-> None, autocrop |-> FALSE, padding |-> 0,
     square |-> FALSE, fixed_center |-> FALSE, save_format |-> <<>>]

LocalsInit ==
    /\ image_paths = <<>>
    /\ valid_images = <<>>
    /\ num_images = 0
    /\ cols = 0 /\ rows = 0
    /\ name = <<>>
    /\ gbox = NoBox
    /\ has_valid_content = FALSE
    /\ radius2 = <<0, 0>>
    /\ scan = 1
    /\ cell_width = 0 /\ cell_height = 0
    /\ crop_box = NoCrop
    /\ canvas = None
    /\ idx = 0
    /\ pastes = <<>>
    /\ opened = 0
    /\ output = None
    /\ error = ""

MainIdle == args = NoArgs /\ pc = "idle" /\ LocalsInit

Raise(e) ==
    /\ pc' = "error"
    /\ error' = e

\* ------------------------------------------------------------------------
\* create_filmstrip_from_dir
\* ------------------------------------------------------------------------
\* sorted(input_dir.glob(pattern), key=lambda p: natural_sort_key(p.name))
\* for the default pattern, on the directory listing
SortedListing(listing) ==
    LET found == SelectSeq2(listing, {p \in Range(listing) : GlobMatches(p.name)})
        es == [k \in 1..Len(found) |->
                  [key |-> natural_sort_key(found[k].name), item |-> found[k]]]
    IN  IF \E k \in 1..Len(es) : KeyRaises(es[k].key)
        THEN [status |-> "ValueError", val |-> <<>>]
        ELSE LET r == ListSort(es)
             IN  IF r.err THEN [status |-> "TypeError", val |-> <<>>]
                 ELSE [status |-> "ok",
                       val |-> [k \in 1..Len(found) |-> r.val[k].item]]

HasValidExtension(p) == Lower(Suffix(p.name)) \in valid_extensions

FromDir ==
    /\ pc = "from_dir"
    /\ IF ~args.is_dir
       THEN Raise("NotADirectoryError") /\ UNCHANGED <<image_paths, name>>
       ELSE LET srt == SortedListing(args.listing)
                image_files ==
                    SelectSeq2(srt.val, {p \in Range(srt.val) : HasValidExtension(p)})
            IN  IF srt.status # "ok"
                THEN Raise(srt.status) /\ UNCHANGED <<image_paths, name>>
                ELSE IF image_files = <<>>
                THEN Raise("ValueError: No image files found")
                        /\ UNCHANGED <<image_paths, name>>
                ELSE /\ image_paths' = image_files
                     /\ name' = args.name
                     /\ pc' = "start"
                     /\ error' = error
    /\ UNCHANGED <<pure, args, valid_images, num_images, cols, rows, geom, comp, opened>>

\* ------------------------------------------------------------------------
\* create_filmstrip
\* ------------------------------------------------------------------------
\* lines 125-138: reject an empty list, keep the paths that exist
Start ==
    /\ pc = "start"
    /\ LET valid == SelectSeq2(image_paths, {p \in Range(image_paths) : Exists(p)})
       IN  IF image_paths = <<>>
           THEN Raise("ValueError: No image paths provided")
                   /\ UNCHANGED <<valid_images, num_images, pastes>>
           ELSE IF valid = <<>>
           THEN Raise("ValueError: No valid image files found")
                   /\ valid_images' = valid
                   /\ UNCHANGED <<num_images, pastes>>
           ELSE /\ valid_images' = valid
                /\ num_images' = Len(valid)
                /\ pastes' = [k \in 1..Len(valid) |-> NoPaste]
                /\ pc' = "grid"
                /\ error' = error
    /\ UNCHANGED <<pure, args, image_paths, grid, geom, canvas, idx, output, opened>>

GridUnchecked ==
    /\ pc = "grid"
    /\ IF args.grid_size = None
       THEN /\ cols' = calculate_optimal_dimensions(num_images)[1]
            /\ rows' = calculate_optimal_dimensions(num_images)[2]
       ELSE /\ cols' = args.grid_size[1]
            /\ rows' = args.grid_size[1]
    /\ name' = Sanitize(name)
    /\ pc' = IF ~args.autocrop THEN "nocrop"
             ELSE IF args.fixed_center THEN "center_loop" ELSE "bbox_loop"
    /\ error' = error
    /\ UNCHANGED <<pure, args, image_paths, valid_images, num_images, geom, comp, opened>>

\* lines 140-156: the grid, by default or by override, and the sanitized name
Grid ==
    /\ pc = "grid"
    /\ IF args.grid_size = None  \* an override g is <<g>>
       THEN /\ cols' = calculate_optimal_dimensions(num_images)[1]
            /\ rows' = calculate_optimal_dimensions(num_images)[2]
            /\ name' = Sanitize(name)
            /\ pc' = IF ~args.autocrop THEN "nocrop"
                     ELSE IF args.fixed_center THEN "center_loop" ELSE "bbox_loop"
            /\ error' = error
       ELSE IF args.grid_size[1] < calculate_grid_size(num_images)
       THEN Raise("ValueError: Grid size too small") /\ UNCHANGED grid
       ELSE /\ cols' = args.grid_size[1]
            /\ rows' = args.grid_size[1]
            /\ name' = Sanitize(name)
            /\ pc' = IF ~args.autocrop THEN "nocrop"
                     ELSE IF args.fixed_center THEN "center_loop" ELSE "bbox_loop"
            /\ error' = error
    /\ UNCHANGED <<pure, args, image_paths, valid_images, num_images, geom, comp, opened>>

Abs(x) == IF x < 0 THEN 0 - x ELSE x
Max3(a, b, c) == Max2(Max2(a, b), c)

\* lines 179-198: one iteration of the Center-Preserving scan.  The radii
\* are multiples of 1/2 (cx = width / 2), kept here as twice their value.
CenterScan ==
    /\ pc = "center_loop"
    /\ scan <= num_images
    /\ LET img == valid_images[scan]
       IN  IF img.kind = "ok" /\ img.bbox # None
           THEN /\ has_valid_content' = TRUE
                /\ radius2' =
                     << Max3(radius2[1], Abs(img.w - 2 * img.bbox[1]),
                             Abs(2 * img.bbox[3] - img.w)),
                        Max3(radius2[2], Abs(img.h - 2 * img.bbox[2]),
                             Abs(2 * img.bbox[4] - img.h)) >>
           ELSE UNCHANGED <<has_valid_content, radius2>>
    /\ scan' = scan + 1
    /\ opened' = opened + 1
    /\ UNCHANGED <<pure, args, pc, image_paths, valid_images, num_images, grid,
                   gbox, cell_width, cell_height, crop_box, comp, error>>

CenterResolveEven ==
    /\ pc = "center_loop"
    /\ scan > num_images
    /\ IF has_valid_content
       THEN /\ cell_width' = 2 * CeilDiv(radius2[1], 2)
            /\ cell_height' = 2 * CeilDiv(radius2[2], 2)
            /\ crop_box' = [tag |-> "CENTER", a |-> 2 * CeilDiv(radius2[1], 2),
                            b |-> 2 * CeilDiv(radius2[2], 2), c |-> 0, d |-> 0]
            /\ opened' = opened
       ELSE /\ cell_width' = get_max_dimensions(valid_images)[1]
            /\ cell_height' = get_max_dimensions(valid_images)[2]
            /\ crop_box' = NoCrop
            /\ opened' = opened + num_images
    /\ pc' = "pad"
    /\ UNCHANGED <<pure, args, image_paths, valid_images, num_images, grid,
                   gbox, has_valid_content, radius2, scan, comp, error>>

\* lines 200-216: int(math.ceil(max_radius * 2)), or the fallback
CenterResolve ==
    /\ pc = "center_loop"
    /\ scan > num_images
    /\ IF has_valid_content
       THEN /\ cell_width' = radius2[1]
            /\ cell_height' = radius2[2]
            /\ crop_box' = [tag |-> "CENTER", a |-> radius2[1], b |-> radius2[2],
                            c |-> 0, d |-> 0]
            /\ opened' = opened
       ELSE /\ cell_width' = get_max_dimensions(valid_images)[1]
            /\ cell_height' = get_max_dimensions(valid_images)[2]
            /\ crop_box' = NoCrop
            /\ opened' = opened + num_images
    /\ pc' = "pad"
    /\ UNCHANGED <<pure, args, image_paths, valid_images, num_images, grid,
                   gbox, has_valid_content, radius2, scan, comp, error>>

UnionBoxRightMin(g, bb) ==
    [l |-> Min2(g.l, bb[1]), t |-> Min2(g.t, bb[2]),
     r |-> IF g.r = 0 THEN bb[3] ELSE Min2(g.r, bb[3]), b |-> Max2(g.b, bb[4])]

\* lines 233-236: the running union with one more bbox
UnionBox(g, bb) ==
    [l |-> Min2(g.l, bb[1]), t |-> Min2(g.t, bb[2]),
     r |-> Max2(g.r, bb[3]), b |-> Max2(g.b, bb[4])]

\* lines 227-238: one iteration of the Global Bounding Box scan
BBoxScan ==
    /\ pc = "bbox_loop"
    /\ scan <= num_images
    /\ LET img == valid_images[scan]
       IN  IF img.kind = "ok" /\ img.bbox # None
           THEN /\ has_valid_content' = TRUE
                /\ gbox' = UnionBox(gbox, img.bbox)
           ELSE UNCHANGED <<has_valid_content, gbox>>
    /\ scan' = scan + 1
    /\ opened' = opened + 1
    /\ UNCHANGED <<pure, args, pc, image_paths, valid_images, num_images, grid,
                   radius2, cell_width, cell_height, crop_box, comp, error>>

\* lines 240-248: the union box as the crop box, or the fallback
BBoxResolve ==
    /\ pc = "bbox_loop"
    /\ scan > num_images
    /\ IF has_valid_content
       THEN /\ cell_width' = gbox.r - gbox.l
            /\ cell_height' = gbox.b - gbox.t
            /\ crop_box' = [tag |-> "BOX", a |-> gbox.l, b |-> gbox.t,
                            c |-> gbox.r, d |-> gbox.b]
            /\ opened' = opened
       ELSE /\ cell_width' = get_max_dimensions(valid_images)[1]
            /\ cell_height' = get_max_dimensions(valid_images)[2]
            /\ crop_box' = NoCrop
            /\ opened' = opened + num_images
    /\ pc' = "pad"
    /\ UNCHANGED <<pure, args, image_paths, valid_images, num_images, grid,
                   gbox, has_valid_content, radius2, scan, comp, error>>

PadSquareOneSide ==
    /\ pc = "pad"
    /\ LET pad == IF crop_box.tag # "None" /\ args.padding > 0
                  THEN args.padding ELSE 0
           w == cell_width + pad
           h == cell_height + pad
       IN  IF crop_box.tag # "None" /\ args.square
           THEN cell_width' = Max2(w, h) /\ cell_height' = Max2(w, h)
           ELSE cell_width' = w /\ cell_height' = h
    /\ pc' = "canvas"
    /\ UNCHANGED <<pure, args, image_paths, valid_images, num_images, grid,
                   gbox, has_valid_content, radius2, scan, crop_box, comp, opened, error>>

\* lines 250-261: padding, then the square constraint, when there is a crop
PadSquare ==
    /\ pc = "pad"
    /\ LET pad == IF crop_box.tag # "None" /\ args.padding > 0
                  THEN 2 * args.padding ELSE 0
           w == cell_width + pad
           h == cell_height + pad
       IN  IF crop_box.tag # "None" /\ args.square
           THEN cell_width' = Max2(w, h) /\ cell_height' = Max2(w, h)
           ELSE cell_width' = w /\ cell_height' = h
    /\ pc' = "canvas"
    /\ UNCHANGED <<pure, args, image_paths, valid_images, num_images, grid,
                   gbox, has_valid_content, radius2, scan, crop_box, comp, opened, error>>

\* lines 263-266: no autocrop
NoCropSize ==
    /\ pc = "nocrop"
    /\ cell_width' = get_max_dimensions(valid_images)[1]
    /\ cell_height' = get_max_dimensions(valid_images)[2]
    /\ crop_box' = NoCrop
    /\ opened' = opened + num_images
    /\ pc' = "canvas"
    /\ UNCHANGED <<pure, args, image_paths, valid_images, num_images, grid,
                   gbox, has_valid_content, radius2, scan, comp, error>>

NewCanvasNoFallback ==
    /\ pc = "canvas"
    /\ canvas' = <<cell_width * cols, cell_height * rows>>
    /\ pc' = "place"
    /\ UNCHANGED <<pure, args, image_paths, valid_images, num_images, grid,
                   gbox, has_valid_content, radius2, scan, cell_width, cell_height,
                   crop_box, idx, pastes, output, opened, error>>

\* lines 270-281: the 1x1 fallback and the allocation of the canvas
NewCanvas ==
    /\ pc = "canvas"
    /\ LET zero == cell_width = 0 \/ cell_height = 0
           w == IF zero THEN 1 ELSE cell_width
           h == IF zero THEN 1 ELSE cell_height
       IN  /\ cell_width' = w
           /\ cell_height' = h
           /\ canvas' = <<w * cols, h * rows>>
    /\ pc' = "place"
    /\ UNCHANGED <<pure, args, image_paths, valid_images, num_images, grid,
                   gbox, has_valid_content, radius2, scan, crop_box, idx, pastes,
                   output, opened, error>>

PasteOfCeil(img, x, y, cw, ch, autocrop, crop) ==
    LET box == autocrop /\ crop.tag = "BOX"
        w == IF box THEN crop.c - crop.a ELSE img.w
        h == IF box THEN crop.d - crop.b ELSE img.h
        offset_x == (cw - w + 1) \div 2
        offset_y == (ch - h + 1) \div 2
    IN  [x |-> x + offset_x, y |-> y + offset_y, w |-> w, h |-> h,
         ox |-> x + offset_x - (IF box THEN crop.a ELSE 0),
         oy |-> y + offset_y - (IF box THEN crop.b ELSE 0),
         cropped |-> box, done |-> TRUE]

\* The paste of lines 297-357 for a decodable image at grid origin (x, y):
\* its position and size, and where the image's own pixel (0, 0) lands.
PasteOf(img, x, y, cw, ch, autocrop, crop) ==
    LET box == autocrop /\ crop.tag = "BOX"
        w == IF box THEN crop.c - crop.a ELSE img.w
        h == IF box THEN crop.d - crop.b ELSE img.h
        offset_x == (cw - w) \div 2
        offset_y == (ch - h) \div 2
    IN  [x |-> x + offset_x, y |-> y + offset_y, w |-> w, h |-> h,
         ox |-> x + offset_x - (IF box THEN crop.a ELSE 0),
         oy |-> y + offset_y - (IF box THEN crop.b ELSE 0),
         cropped |-> box, done |-> TRUE]

GridPosColumnMajor(k, c) == <<k % c, k \div c>>

\* lines 290-291: <<row, col>> of the image with enumerate() index k
GridPos(k, c) == <<k \div c, k % c>>

PlaceImageAborting ==
    /\ pc = "place"
    /\ idx < num_images
    /\ idx < cols * rows
    /\ LET img == valid_images[idx + 1]
           row == GridPos(idx, cols)[1]
           col == GridPos(idx, cols)[2]
           x == col * cell_width
           y == row * cell_height
       IN  IF img.kind = "ok"
           THEN /\ pastes' = [pastes EXCEPT ![idx + 1] =
                                PasteOf(img, x, y, cell_width, cell_height,
                                        args.autocrop, crop_box)]
                /\ idx' = idx + 1
           ELSE /\ pastes' = pastes
                /\ idx' = num_images
    /\ opened' = opened + 1
    /\ UNCHANGED <<pure, args, pc, image_paths, valid_images, num_images, grid,
                   geom, canvas, output, error>>

PlaceImageSkipEmpty ==
    /\ pc = "place"
    /\ idx < num_images
    /\ idx < cols * rows
    /\ LET img == valid_images[idx + 1]
           row == GridPos(idx, cols)[1]
           col == GridPos(idx, cols)[2]
           x == col * cell_width
           y == row * cell_height
       IN  IF img.kind = "ok" /\ ~(crop_box.tag = "BOX" /\ img.bbox = None)
           THEN pastes' = [pastes EXCEPT ![idx + 1] =
                              PasteOf(img, x, y, cell_width, cell_height,
                                      args.autocrop, crop_box)]
           ELSE pastes' = pastes
    /\ idx' = idx + 1
    /\ opened' = opened + 1
    /\ UNCHANGED <<pure, args, pc, image_paths, valid_images, num_images, grid,
                   geom, canvas, output, error>>

\* lines 284-362: one iteration of the placement loop; an image that cannot
\* be opened or loaded raises inside the try and is skipped
PlaceImage ==
    /\ pc = "place"
    /\ idx < num_images
    /\ idx < cols * rows
    /\ LET img == valid_images[idx + 1]
           row == GridPos(idx, cols)[1]
           col == GridPos(idx, cols)[2]
           x == col * cell_width
           y == row * cell_height
       IN  IF img.kind = "ok"
           THEN pastes' = [pastes EXCEPT ![idx + 1] =
                              PasteOf(img, x, y, cell_width, cell_height,
                                      args.autocrop, crop_box)]
           ELSE pastes' = pastes
    /\ idx' = idx + 1
    /\ opened' = opened + 1
    /\ UNCHANGED <<pure, args, pc, image_paths, valid_images, num_images, grid,
                   geom, canvas, output, error>>

\* lines 284-287: the loop ends with the list, or breaks when the grid is full
PlaceDone ==
    /\ pc = "place"
    /\ idx >= num_images \/ idx >= cols * rows
    /\ pc' = "save"
    /\ UNCHANGED <<pure, args, image_paths, valid_images, num_images, grid,
                   geom, comp, opened, error>>

SaveCountPlaced ==
    /\ pc = "save"
    /\ output' = FileName(name, cell_width, cell_height,
                          Cardinality({k \in 1..num_images : pastes[k].done}),
                          cols, rows, args.save_format)
    /\ pc' = "done"
    /\ UNCHANGED <<pure, args, image_paths, valid_images, num_images, grid,
                   geom, canvas, idx, pastes, opened, error>>

\* lines 364-379: the file name and the save
Save ==
    /\ pc = "save"
    /\ output' = FileName(name, cell_width, cell_height, num_images, cols, rows,
                          args.save_format)
    /\ pc' = "done"
    /\ UNCHANGED <<pure, args, image_paths, valid_images, num_images, grid,
                   geom, canvas, idx, pastes, opened, error>>

\* ------------------------------------------------------------------------
\* Specification of calculate_optimal_dimensions alone
\* ------------------------------------------------------------------------
SortIdle == sortIn = <<>> /\ sortOut = [status |-> "pending", val |-> <<>>]
DimIdle == dimIn = 0 /\ dimOut = None

InitDims ==
    /\ dimIn \in MinCount..MaxCount
    /\ dimOut = None
    /\ SortIdle
    /\ MainIdle

CalcDims ==
    /\ dimOut = None
    /\ dimIn \in MinCount..MaxCount
    /\ dimOut' = calculate_optimal_dimensions(dimIn)
    /\ UNCHANGED <<dimIn, sortIn, sortOut, args, pc, image_paths, valid_images,
                   num_images, grid, geom, comp, opened, error>>

SpecDims == InitDims /\ [][CalcDims]_vars

\* ------------------------------------------------------------------------
\* Specification of sorted(..., key=natural_sort_key) alone
\* ------------------------------------------------------------------------
SortAlphabet == {"0", "1", "2", "a", "B", "u3", "sup2"}

RECURSIVE NamesOfLen(_)
NamesOfLen(n) ==
    IF n = 0 THEN {<<>>}
    ELSE {<<c>> \o s : c \in SortAlphabet, s \in NamesOfLen(n - 1)}

ShortNames == UNION {NamesOfLen(n) : n \in 0..MaxNameLen}

Str_a1 == <<"a", "1">>
Str_a2 == <<"a", "2">>
Str_a10 == <<"a", "1", "0">>
Image_2 == <<"I", "m", "a", "g", "e", "_", "2", ".", "w", "e", "b", "p">>
Image_10 == <<"I", "m", "a", "g", "e", "_", "1", "0", ".", "w", "e", "b", "p">>

ExampleLists ==
    { <<Str_a10, Str_a2, Str_a1>>, <<Image_10, Image_2>>, <<Image_2, Image_10>>,
      <<Str_a2, Str_a10, Str_a1>>, <<Str_a1, Str_a10, Str_a2>> }

InitSort ==
    /\ sortIn \in {<<x, y>> : x \in ShortNames, y \in ShortNames} \cup ExampleLists
    /\ sortOut = [status |-> "pending", val |-> <<>>]
    /\ DimIdle
    /\ MainIdle

SortFiles ==
    /\ sortOut.status = "pending"
    /\ Len(sortIn) > 0
    /\ sortOut' = SortedNames(sortIn)
    /\ UNCHANGED <<dimIn, dimOut, sortIn, args, pc, image_paths, valid_images,
                   num_images, grid, geom, comp, opened, error>>

SpecSort == InitSort /\ [][SortFiles]_vars

\* ------------------------------------------------------------------------
\* The calls explored
\* ------------------------------------------------------------------------
SeqsUpTo(S, n) == UNION {[1..k -> S] : k \in 0..n}

Str_x == <<"x">>
Str_filmstrip == <<"f", "i", "l", "m", "s", "t", "r", "i", "p">>
Str_WEBP == <<"W", "E", "B", "P">>
Str_PNG == <<"P", "N", "G">>
Str_MyClip == <<"M", "y", " ", "C", "l", "i", "p">>

Missing == File(Str_x, "missing", 0, 0, None)
Unreadable == File(Str_x, "unreadable", 0, 0, None)

Sizes == (1..MaxWidth) \X (1..MaxHeight)

\* Every image of at most MaxWidth x MaxHeight pixels, by its size and bbox,
\* and the paths that are missing, unreadable or truncated.
ImageKinds ==
    {Missing, Unreadable}
        \cup {File(Str_x, "truncated", s[1], s[2], None) : s \in Sizes}
        \cup UNION {{File(Str_x, "ok", s[1], s[2], bb) :
                        bb \in BBoxes(s[1], s[2]) \cup {None}} : s \in Sizes}

Policies ==
    {[autocrop |-> ac, fixed_center |-> fc, padding |-> p, square |-> sq] :
        ac \in BOOLEAN, fc \in BOOLEAN, p \in 0..MaxPadding, sq \in BOOLEAN}

\* A policy in which the ignored options are left at their defaults.
Canonical(pol) == pol.autocrop \/ (~pol.fixed_center /\ pol.padding = 0 /\ ~pol.square)

ListCall(paths, nm, g, pol, fmt) ==
    [mode |-> "list", is_dir |-> FALSE, listing |-> <<>>, paths |-> paths,
     name |-> nm, grid_size |-> g, autocrop |-> pol.autocrop,
     padding |-> pol.padding, square |-> pol.square,
     fixed_center |-> pol.fixed_center, save_format |-> fmt]

DirCall(isdir, listing, nm, g, pol, fmt) ==
    [mode |-> "dir", is_dir |-> isdir, listing |-> listing, paths |-> <<>>,
     name |-> nm, grid_size |-> g, autocrop |-> pol.autocrop,
     padding |-> pol.padding, square |-> pol.square,
     fixed_center |-> pol.fixed_center, save_format |-> fmt]

NoPolicy == [autocrop |-> FALSE, fixed_center |-> FALSE, padding |-> 0, square |-> FALSE]
GlobalPad1 == [autocrop |-> TRUE, fixed_center |-> FALSE, padding |-> 1, square |-> FALSE]

\* Few images of every kind under every crop policy, default grid.
GeometryCalls ==
    {ListCall(paths, Str_filmstrip, None, pol, Str_WEBP) :
        paths \in SeqsUpTo(ImageKinds, MaxImages),
        pol \in {q \in Policies : Canonical(q)}}

\* One image of every kind with a negative padding.
NegativePadCalls ==
    {ListCall(paths, Str_filmstrip, None, [pol EXCEPT !.padding = 0 - 1], Str_WEBP) :
        paths \in SeqsUpTo(ImageKinds, 1),
        pol \in {q \in Policies : q.autocrop /\ q.padding = 0}}

\* Three 3x2 images with content, under GlobalBBox with and without padding.
ContentImages == {File(Str_x, "ok", 3, 2, bb) : bb \in BBoxes(3, 2)}

UnionCalls ==
    {ListCall(<<t[1], t[2], t[3]>>, Str_filmstrip, None, pol, Str_WEBP) :
        t \in ContentImages \X ContentImages \X ContentImages,
        pol \in {[GlobalPad1 EXCEPT !.padding = 0], GlobalPad1}}

\* Many images of one size, with and without a grid override.
UniformSizes == {<<1, 1>>, <<3, 2>>}

GridCalls ==
    {ListCall([k \in 1..n |-> File(Str_x, "ok", s[1], s[2], <<0, 0, s[1], s[2]>>)]
                 \o tl,
              Str_filmstrip, g, NoPolicy, Str_PNG) :
        n \in 0..MaxGridImages, s \in UniformSizes, tl \in {<<>>, <<Missing>>},
        g \in {None} \cup {<<n>> : n \in (0 - 1)..MaxOverride}}

\* Names and formats; seven 64x64 frames, some of which fail to decode.
ExampleNames ==
    { Str_MyClip, Str_filmstrip, <<"a", " ", "b", " ", "c">>, <<" ">>, <<>> }
ExampleFormats == { Str_WEBP, Str_PNG, <<"w", "e", "b", "p">>, <<"P", "n", "g">> }
Frame64 == File(Str_x, "ok", 64, 64, <<0, 0, 64, 64>>)
Truncated64 == File(Str_x, "truncated", 64, 64, None)

NameCalls ==
    {ListCall([k \in 1..n |-> IF k \in bad THEN b ELSE Frame64],
              nm, None, pol, fmt) :
        n \in {1, 7}, bad \in {{}, {2}, 1..7}, b \in {Unreadable, Truncated64},
        nm \in ExampleNames, fmt \in ExampleFormats, pol \in {NoPolicy, GlobalPad1}}

\* A directory: files in the order the listing returns them.
Pixel == <<0, 0, 1, 1>>
DirFiles ==
    { File(<<"a", "1", ".", "p", "n", "g">>, "ok", 1, 1, Pixel),
      File(<<"a", "2", ".", "P", "N", "G">>, "ok", 2, 1, Pixel),
      File(<<"a", "1", "0", ".", "p", "n", "g">>, "ok", 3, 1, Pixel),
      File(<<"B", "1", ".", "j", "p", "e", "g">>, "unreadable", 0, 0, None),
      File(<<"n", "o", "t", "e", "s", ".", "t", "x", "t">>, "unreadable", 0, 0, None),
      File(<<"u3", "1", ".", "p", "n", "g">>, "ok", 1, 2, Pixel),
      File(<<"sup2", "1", ".", "t", "x", "t">>, "unreadable", 0, 0, None),
      File(<<".", "p", "n", "g">>, "ok", 1, 1, Pixel),
      File(<<"c">>, "unreadable", 0, 0, None) }

Listings ==
    {l \in SeqsUpTo(DirFiles, MaxDirFiles) :
        \A j, k \in 1..Len(l) : j # k => l[j] # l[k]}

DirCalls ==
    {DirCall(TRUE, l, Str_MyClip, None, NoPolicy, Str_WEBP) : l \in Listings}
        \cup {DirCall(FALSE, <<>>, Str_MyClip, None, NoPolicy, Str_WEBP)}

Init ==
    /\ \/ args \in GeometryCalls
       \/ args \in NegativePadCalls
       \/ args \in UnionCalls
       \/ args \in GridCalls
       \/ args \in NameCalls
       \/ args \in DirCalls
    /\ pc = IF args.mode = "dir" THEN "from_dir" ELSE "start"
    /\ image_paths = args.paths
    /\ valid_images = <<>>
    /\ num_images = 0
    /\ cols = 0 /\ rows = 0
    /\ name = IF args.mode = "dir" THEN <<>> ELSE args.name
    /\ gbox = NoBox
    /\ has_valid_content = FALSE
    /\ radius2 = <<0, 0>>
    /\ scan = 1
    /\ cell_width = 0 /\ cell_height = 0
    /\ crop_box = NoCrop
    /\ canvas = None
    /\ idx = 0
    /\ pastes = <<>>
    /\ opened = 0
    /\ output = None
    /\ error = ""
    /\ DimIdle /\ SortIdle

Next ==
    \/ FromDir
    \/ Start
    \/ Grid
    \/ CenterScan
    \/ CenterResolve
    \/ BBoxScan
    \/ BBoxResolve
    \/ PadSquare
    \/ NoCropSize
    \/ NewCanvas
    \/ PlaceImage
    \/ PlaceDone
    \/ Save

Spec == Init /\ [][Next]_vars

\* ------------------------------------------------------------------------
\* Claims about calculate_optimal_dimensions (checked under SpecDims)
\* ------------------------------------------------------------------------
\* C1: for every count in 1..MaxCount the default grid holds all images and
\* is not oversized: cols*rows >= count and cols*rows < count + max(cols, rows).
C1_GridFitsTightly ==
    (dimOut # None /\ dimIn >= 1) =>
        /\ dimOut[1] * dimOut[2] >= dimIn
        /\ dimOut[1] * dimOut[2] < dimIn + Max2(dimOut[1], dimOut[2])

C1_Witness == dimIn = 7 /\ dimOut = <<3, 3>>

\* C2: with no override cols is the least c with c*c >= count and rows is
\* the least r with r*cols >= count; 9 -> (3,3), 5 -> (3,2), 10 -> (4,3);
\* a count <= 0 gives (0,0).
C2_DefaultGrid ==
    dimOut # None =>
        /\ dimIn >= 1 =>
              /\ dimOut[1] >= 1 /\ dimOut[2] >= 1
              /\ dimOut[1] * dimOut[1] >= dimIn
              /\ (dimOut[1] - 1) * (dimOut[1] - 1) < dimIn
              /\ dimOut[2] * dimOut[1] >= dimIn
              /\ (dimOut[2] - 1) * dimOut[1] < dimIn
        /\ dimIn = 9 => dimOut = <<3, 3>>
        /\ dimIn = 5 => dimOut = <<3, 2>>
        /\ dimIn = 10 => dimOut = <<4, 3>>
        /\ dimIn <= 0 => dimOut = <<0, 0>>

C2_Witness == dimIn = 10 /\ dimOut = <<4, 3>>

\* ------------------------------------------------------------------------
\* Claims about natural sorting (checked under SpecSort)
\* ------------------------------------------------------------------------
\* The pieces of x and y agree everywhere but at one digit run, where the
\* integer value of x's run is smaller than that of y's.
DiffersInOneDigitRun(x, y) ==
    LET px == ReSplit(x)
        py == ReSplit(y)
    IN  /\ Len(px) = Len(py)
        /\ \E i \in 1..Len(px) :
              /\ i % 2 = 0
              /\ IntOf(px[i]) < IntOf(py[i])
              /\ \A j \in 1..Len(px) : j # i => px[j] = py[j]

HasNoDigitRun(x) == Len(ReSplit(x)) = 1

\* C4: digit runs are ordered by integer value: sorting a10, a2, a1 gives
\* a1, a2, a10; of two names that differ only in one digit run the one with
\* the smaller value comes first; text compares case-insensitively.
C4_NaturalOrder ==
    sortOut.status # "pending" =>
        /\ sortIn = <<Str_a10, Str_a2, Str_a1>> =>
              sortOut = [status |-> "ok", val |-> <<Str_a1, Str_a2, Str_a10>>]
        /\ (Len(sortIn) = 2 /\ DiffersInOneDigitRun(sortIn[1], sortIn[2])) =>
              sortOut = [status |-> "ok", val |-> <<sortIn[1], sortIn[2]>>]
        /\ (Len(sortIn) = 2 /\ DiffersInOneDigitRun(sortIn[2], sortIn[1])) =>
              sortOut = [status |-> "ok", val |-> <<sortIn[2], sortIn[1]>>]
        /\ (Len(sortIn) = 2 /\ HasNoDigitRun(sortIn[1]) /\ HasNoDigitRun(sortIn[2])) =>
              /\ sortOut.status = "ok"
              /\ ~StrLess(Lower(sortOut.val[2]), Lower(sortOut.val[1]))

\* C5: at every index that the keys of two names both have, the elements
\* are of the same kind, and sorting completes without raising.
C5_KeysComparable ==
    sortOut.status # "pending" =>
        /\ \A i, j \in 1..Len(sortIn) :
              LET a == natural_sort_key(sortIn[i])
                  b == natural_sort_key(sortIn[j])
              IN  \A k \in 1..Min2(Len(a), Len(b)) :
                      /\ a[k].kind \in {"int", "str"}
                      /\ a[k].kind = b[k].kind
        /\ sortOut.status = "ok"

\* ------------------------------------------------------------------------
\* Claims about create_filmstrip and create_filmstrip_from_dir
\* (checked under Spec)
\* ------------------------------------------------------------------------
GridDecided == pc \notin {"idle", "from_dir", "start", "grid"}
Placing == pc \in {"place", "save", "done"}
Decodable == {k \in 1..Len(valid_images) : valid_images[k].kind = "ok"}
Placed == {k \in 1..Len(pastes) : pastes[k].done}
GridTooSmall == error = "ValueError: Grid size too small"

\* The grid cell (row-major index) that holds the top-left corner of paste k.
CellOf(k) ==
    (pastes[k].y \div cell_height) * cols + (pastes[k].x \div cell_width)

\* C3: with an override g and n >= 1 existing images the call fails with the
\* grid-size error exactly when g < ceil(sqrt(n)), i.e. when g < 1 or
\* g*g < n, and otherwise the grid is g x g; n = 10 with g = 3 fails and with
\* g = 4 gives 16 cells, 10 of them occupied; a failed call has placed
\* nothing, allocated nothing and written nothing.
C3_OverrideValidation ==
    (GridDecided /\ args.grid_size # None /\ num_images >= 1) =>
        LET g == args.grid_size[1]
            n == num_images
        IN  /\ GridTooSmall <=> (g < 1 \/ g * g < n)
            /\ ~GridTooSmall => (cols = g /\ rows = g)
            /\ GridTooSmall =>
                  /\ pc = "error"
                  /\ Placed = {}
                  /\ canvas = None
                  /\ output = None
            /\ (n = 10 /\ g = 3) => GridTooSmall
            /\ (n = 10 /\ g = 4 /\ pc = "done" /\ Decodable = 1..n) =>
                  /\ cols = 4 /\ rows = 4
                  /\ Cardinality({CellOf(k) : k \in Placed}) = 10
                  /\ cols * rows - Cardinality({CellOf(k) : k \in Placed}) = 6

C3_Witness ==
    /\ args.grid_size = <<3>>
    /\ num_images = 10
    /\ pc = "error"
    /\ GridTooSmall

C6_Example ==
    <<"M", "y", "-", "C", "l", "i", "p", "_", "6", "4", "x", "6", "4", "_", "7",
      "_", "3", "x", "3", ".", "w", "e", "b", "p">>

\* C6: the output file name is the name with every space replaced by a
\* hyphen, then _{cellWidth}x{cellHeight}_{count}_{cols}x{rows}.{ext} with
\* the cell size the canvas was allocated with, the grid used, the
\* lower-cased format, and as count the number of existing input images,
\* whether or not they could be decoded and placed.
C6_OutputName ==
    pc = "done" =>
        LET count == Cardinality({k \in 1..Len(image_paths) :
                                     image_paths[k].kind # "missing"})
            cw == canvas[1] \div cols
            ch == canvas[2] \div rows
            k0 == Len(args.name)
        IN  /\ Len(output) > k0
            /\ \A k \in 1..k0 :
                  output[k] = (IF args.name[k] = " " THEN "-" ELSE args.name[k])
            /\ SubSeq(output, k0 + 1, Len(output)) =
                  <<"_">> \o IntToStr(cw) \o <<"x">> \o IntToStr(ch) \o <<"_">>
                     \o IntToStr(count) \o <<"_">> \o IntToStr(cols) \o <<"x">>
                     \o IntToStr(rows) \o <<".">> \o Lower(args.save_format)
            /\ (/\ args.name = Str_MyClip /\ cw = 64 /\ ch = 64 /\ count = 7
                /\ cols = 3 /\ rows = 3
                /\ Lower(args.save_format) = <<"w", "e", "b", "p">>)
                  => output = C6_Example

C6_Witness ==
    /\ pc = "done"
    /\ output = C6_Example
    /\ num_images = 7
    /\ Cardinality(Placed) < 7

\* C7: with autocrop off and all images of one size W x H the canvas is
\* (cols*W) x (rows*H), every decodable image k (0-based) is pasted at
\* (col*W, row*H), row = k div cols, col = k mod cols, with size W x H, so
\* that it covers exactly its cell, and no two images share a cell.
C7_UniformPlacement ==
    (/\ Placing
     /\ ~args.autocrop
     /\ \A k \in 1..num_images : valid_images[k].kind \in {"ok", "truncated"}
     /\ \A j, k \in 1..num_images :
           valid_images[j].w = valid_images[k].w /\ valid_images[j].h = valid_images[k].h)
    =>
        LET W == valid_images[1].w
            H == valid_images[1].h
        IN  /\ canvas = <<cols * W, rows * H>>
            /\ cell_width = W /\ cell_height = H
            /\ \A k \in 1..idx :
                  valid_images[k].kind = "ok" =>
                      /\ pastes[k].done
                      /\ pastes[k].x = ((k - 1) % cols) * W
                      /\ pastes[k].y = ((k - 1) \div cols) * H
                      /\ pastes[k].w = W /\ pastes[k].h = H
                      /\ pastes[k].x + W <= canvas[1]
                      /\ pastes[k].y + H <= canvas[2]
            /\ \A j, k \in Placed :
                  j # k => <<pastes[j].x, pastes[j].y>> # <<pastes[k].x, pastes[k].y>>

C7_Witness ==
    /\ pc = "done"
    /\ ~args.autocrop
    /\ num_images = 5
    /\ \A k \in 1..num_images : valid_images[k].w = 3 /\ valid_images[k].h = 2
    /\ Placed = 1..5
    /\ pastes[5].x = 3 /\ pastes[5].y = 2

TransparentPixel == File(Str_x, "ok", 1, 1, None)

\* C8: the cell size the canvas is allocated with is at least 1 x 1 for
\* every input and policy; a resolved width or height of 0 turns both into
\* 1; a single fully transparent 1x1 image under GlobalBBox finds no
\* content, is sized by the maximum dimensions and gets a 1x1 cell.
C8_CellAtLeastOne ==
    /\ canvas # None =>
          /\ cell_width >= 1 /\ cell_height >= 1
          /\ canvas = <<cols * cell_width, rows * cell_height>>
          /\ canvas[1] >= 1 /\ canvas[2] >= 1
    /\ (pc = "canvas" /\ (cell_width = 0 \/ cell_height = 0)) =>
          \A k \in 1..num_images : valid_images[k].kind = "unreadable"
    /\ (canvas # None /\ \A k \in 1..num_images : valid_images[k].kind = "unreadable") =>
          (cell_width = 1 /\ cell_height = 1)
    /\ (/\ canvas # None
        /\ valid_images = <<TransparentPixel>>
        /\ args.autocrop /\ ~args.fixed_center) =>
          /\ ~has_valid_content
          /\ crop_box.tag = "None"
          /\ cell_width = 1 /\ cell_height = 1

C8_Witness ==
    /\ canvas = <<1, 1>>
    /\ valid_images = <<TransparentPixel>>
    /\ args.autocrop /\ ~args.fixed_center

SetMin(S) == CHOOSE x \in S : \A y \in S : x <= y
SetMax(S) == CHOOSE x \in S : \A y \in S : x >= y
WithContent ==
    {k \in 1..Len(valid_images) :
        valid_images[k].kind = "ok" /\ valid_images[k].bbox # None}
UnionOf(K) ==
    [l |-> SetMin({valid_images[k].bbox[1] : k \in K}),
     t |-> SetMin({valid_images[k].bbox[2] : k \in K}),
     r |-> SetMax({valid_images[k].bbox[3] : k \in K}),
     b |-> SetMax({valid_images[k].bbox[4] : k \in K})]
Inside(bb, u) == u.l <= bb[1] /\ u.t <= bb[2] /\ bb[3] <= u.r /\ bb[4] <= u.b

\* C9: under GlobalBBox the union box is the componentwise min of left/top
\* and max of right/bottom over the images with content, it contains each
\* of their boxes, the cell is its width and height, and an image whose
\* box lies inside the union of the others does not change the cell size.
C9_UnionBox ==
    (pc = "pad" /\ args.autocrop /\ ~args.fixed_center /\ WithContent # {}) =>
        /\ has_valid_content
        /\ gbox = UnionOf(WithContent)
        /\ crop_box = [tag |-> "BOX", a |-> gbox.l, b |-> gbox.t,
                       c |-> gbox.r, d |-> gbox.b]
        /\ \A k \in WithContent : Inside(valid_images[k].bbox, gbox)
        /\ cell_width = gbox.r - gbox.l
        /\ cell_height = gbox.b - gbox.t
        /\ \A k \in WithContent :
              LET others == WithContent \ {k}
              IN  (others # {} /\ Inside(valid_images[k].bbox, UnionOf(others))) =>
                      /\ cell_width = UnionOf(others).r - UnionOf(others).l
                      /\ cell_height = UnionOf(others).b - UnionOf(others).t

C9_Witness ==
    /\ pc = "pad" /\ args.autocrop /\ ~args.fixed_center
    /\ WithContent = {1, 2, 3}
    /\ valid_images[1].bbox = <<0, 0, 1, 1>>
    /\ valid_images[2].bbox = <<2, 1, 3, 2>>
    /\ valid_images[3].bbox = <<1, 0, 2, 1>>
    /\ cell_width = 3 /\ cell_height = 2

AcceptedExtension(nm) ==
    \E e \in valid_extensions :
        /\ Len(nm) > Len(e)
        /\ Lower(SubSeq(nm, Len(nm) - Len(e) + 1, Len(nm))) = e

FailedEarly ==
    /\ pc = "error"
    /\ error # ""
    /\ opened = 0
    /\ canvas = None
    /\ output = None
    /\ Placed = {}

\* C10: create_filmstrip raises before any image is opened, any canvas is
\* allocated or any output is written when the list is empty or none of
\* its paths exists; create_filmstrip_from_dir raises likewise when no
\* file of the directory has an accepted image extension.
C10_NoInputFails ==
    /\ (/\ args.mode = "list"
        /\ pc # "start"
        /\ \A k \in 1..Len(args.paths) : args.paths[k].kind = "missing")
          => FailedEarly
    /\ (/\ args.mode = "dir"
        /\ pc # "from_dir"
        /\ \A k \in 1..Len(args.listing) : ~AcceptedExtension(args.listing[k].name))
          => FailedEarly

C10_Witness ==
    /\ args.mode = "list"
    /\ Len(args.paths) = 2
    /\ \A k \in 1..2 : args.paths[k].kind = "missing"
    /\ pc = "error"
    /\ error = "ValueError: No valid image files found"

OnlyImageUndecodable ==
    /\ args.mode = "list"
    /\ Len(args.paths) = 1
    /\ args.paths[1].kind \in {"unreadable", "truncated"}

\* C11: when the only input image exists but cannot be decoded, the call
\* never completes and never writes an output file: once past the
\* existence filter it can only end in the error state.
C11_UndecodableOnlyImageFails ==
    OnlyImageUndecodable =>
        /\ output = None
        /\ pc # "done"

\* The paste of image k sits where lines 290-295 and 353-356 put the image
\* with enumerate() index k - 1: cell (row, col) plus the centring offset.
AtOwnPosition(k) ==
    LET row == (k - 1) \div cols
        col == (k - 1) % cols
    IN  /\ pastes[k].x = col * cell_width + (cell_width - pastes[k].w) \div 2
        /\ pastes[k].y = row * cell_height + (cell_height - pastes[k].h) \div 2

\* The rectangle of paste j meets the cell of image k.
MeetsCell(j, k) ==
    LET row == (k - 1) \div cols
        col == (k - 1) % cols
    IN  /\ pastes[j].x < (col + 1) * cell_width
        /\ pastes[j].x + pastes[j].w > col * cell_width
        /\ pastes[j].y < (row + 1) * cell_height
        /\ pastes[j].y + pastes[j].h > row * cell_height

NearSquare(c, r) == r >= 1 /\ c - 1 <= r /\ r <= c

InsideOwnCell(k) ==
    LET row == (k - 1) \div cols
        col == (k - 1) % cols
    IN  /\ col * cell_width <= pastes[k].x
        /\ pastes[k].x + pastes[k].w <= (col + 1) * cell_width
        /\ row * cell_height <= pastes[k].y
        /\ pastes[k].y + pastes[k].h <= (row + 1) * cell_height

\* C14: under every crop policy, padding and square setting, every pasted
\* image is, after the policy's transform, no wider and no taller than the
\* cell, so both centring offsets are >= 0 and the pasted rectangle lies
\* inside the image's own cell.
C14_PasteFitsCell ==
    Placing =>
        \A k \in Placed :
            /\ pastes[k].w <= cell_width
            /\ pastes[k].h <= cell_height
            /\ (cell_width - pastes[k].w) \div 2 >= 0
            /\ (cell_height - pastes[k].h) \div 2 >= 0
            /\ InsideOwnCell(k)

CenterPreserving == args.autocrop /\ args.fixed_center

\* Twice the distance from the centre of paste k to the centre of its cell,
\* horizontally and vertically (cell centre minus image centre).
CentreBias2(k) ==
    LET row == (k - 1) \div cols
        col == (k - 1) % cols
    IN  << (2 * col * cell_width + cell_width) - (2 * pastes[k].x + pastes[k].w),
           (2 * row * cell_height + cell_height) - (2 * pastes[k].y + pastes[k].h) >>

\* The content bbox of image k, moved to where the image was pasted, lies
\* inside the cell of image k.
ContentInsideOwnCell(k) ==
    LET row == (k - 1) \div cols
        col == (k - 1) % cols
        bb == valid_images[k].bbox
    IN  /\ col * cell_width <= pastes[k].ox + bb[1]
        /\ pastes[k].ox + bb[3] <= (col + 1) * cell_width
        /\ row * cell_height <= pastes[k].oy + bb[2]
        /\ pastes[k].oy + bb[4] <= (row + 1) * cell_height

\* C15: under CenterPreserving every pasted image is pasted whole (its own
\* width and height, no crop), its centre is the cell's centre up to the
\* floor of the offset (the image centre is 0 or 1/2 pixel left of and above
\* the cell centre), and its content bbox at the pasted position lies
\* inside its own cell, for images of different sizes and for every
\* padding and square setting.
C15_CentrePreserved ==
    (Placing /\ CenterPreserving) =>
        \A k \in Placed :
            /\ ~pastes[k].cropped
            /\ pastes[k].w = valid_images[k].w
            /\ pastes[k].h = valid_images[k].h
            /\ pastes[k].ox = pastes[k].x /\ pastes[k].oy = pastes[k].y
            /\ CentreBias2(k)[1] \in {0, 1}
            /\ CentreBias2(k)[2] \in {0, 1}
            /\ valid_images[k].bbox # None => ContentInsideOwnCell(k)

C15_Witness ==
    /\ pc = "done"
    /\ CenterPreserving
    /\ args.padding = 0 /\ ~args.square
    /\ num_images = 2
    /\ valid_images[1] = File(Str_x, "ok", 3, 2, <<1, 0, 2, 1>>)
    /\ valid_images[2] = File(Str_x, "ok", 2, 1, <<0, 0, 1, 1>>)
    /\ cell_width = 2 /\ cell_height = 2
    /\ Placed = {1, 2}
    /\ pastes[1].x = 0 - 1 /\ pastes[1].w = 3

\* Twice the largest horizontal and vertical distance from an image's own
\* centre (w/2, h/2) to the edges of its bbox, over the images with content.
MaxRadius2 ==
    << SetMax(UNION {{Abs(valid_images[k].w - 2 * valid_images[k].bbox[1]),
                      Abs(2 * valid_images[k].bbox[3] - valid_images[k].w)} :
                        k \in WithContent}),
       SetMax(UNION {{Abs(valid_images[k].h - 2 * valid_images[k].bbox[2]),
                      Abs(2 * valid_images[k].bbox[4] - valid_images[k].h)} :
                        k \in WithContent}) >>

\* C16: under CenterPreserving with content, before padding and squaring,
\* cellWidth = 2*ceil(maxHorizontalRadius) and cellHeight =
\* 2*ceil(maxVerticalRadius), also when a radius is a half-integer.
C16_CellIsTwiceCeilRadius ==
    (pc = "pad" /\ CenterPreserving /\ WithContent # {}) =>
        /\ cell_width = 2 * CeilDiv(MaxRadius2[1], 2)
        /\ cell_height = 2 * CeilDiv(MaxRadius2[2], 2)

\* C16 (amended): under CenterPreserving with content, before padding and
\* squaring, cellWidth = ceil(2*maxHorizontalRadius) and cellHeight =
\* ceil(2*maxVerticalRadius); this is 2*ceil(radius) when the radius is
\* whole and one less when it is a half-integer (odd width or height).
C16_CellIsCeilTwiceRadius ==
    (pc = "pad" /\ CenterPreserving /\ WithContent # {}) =>
        /\ has_valid_content
        /\ radius2 = MaxRadius2
        /\ cell_width = MaxRadius2[1]
        /\ cell_height = MaxRadius2[2]
        /\ crop_box.tag = "CENTER"
        /\ cell_width = 2 * CeilDiv(MaxRadius2[1], 2) - (MaxRadius2[1] % 2)
        /\ cell_height = 2 * CeilDiv(MaxRadius2[2], 2) - (MaxRadius2[2] % 2)

C16_Witness ==
    /\ pc = "pad"
    /\ CenterPreserving
    /\ num_images = 2
    /\ valid_images[1] = File(Str_x, "ok", 3, 2, <<0, 0, 1, 1>>)
    /\ valid_images[2] = File(Str_x, "ok", 2, 1, <<0, 0, 2, 1>>)
    /\ cell_width = 3 /\ cell_height = 2

\* The crop size the autocrop scan resolved: the union box's size under
\* GlobalBBox, twice the radii under CenterPreserving.
CropSize ==
    IF crop_box.tag = "BOX"
    THEN <<crop_box.c - crop_box.a, crop_box.d - crop_box.b>>
    ELSE <<crop_box.a, crop_box.b>>

\* C17: under either autocrop policy with content and crop size (w, h), a
\* padding p > 0 gives the cell (w + 2p, h + 2p), the square option then
\* sets both sides to the larger padded side, so with both the cell is
\* max(w, h) + 2p on both sides; with p = 0 the sides are w and h, or
\* max(w, h) when squared.
C17_PaddingThenSquare ==
    (pc \in {"canvas", "place", "save", "done"} /\ args.autocrop /\ WithContent # {}) =>
        /\ crop_box.tag \in {"BOX", "CENTER"}
        /\ LET w == CropSize[1]
               h == CropSize[2]
               p == args.padding
           IN  /\ (p > 0 /\ ~args.square) =>
                      cell_width = w + 2 * p /\ cell_height = h + 2 * p
               /\ (p > 0 /\ args.square) =>
                      /\ cell_width = Max2(w + 2 * p, h + 2 * p)
                      /\ cell_height = Max2(w + 2 * p, h + 2 * p)
                      /\ cell_width = Max2(w, h) + 2 * p
               /\ (p = 0 /\ ~args.square) => cell_width = w /\ cell_height = h
               /\ (p = 0 /\ args.square) =>
                      cell_width = Max2(w, h) /\ cell_height = Max2(w, h)

C17_Witness ==
    /\ pc = "canvas"
    /\ args.autocrop /\ ~args.fixed_center
    /\ args.padding = 1 /\ args.square
    /\ valid_images = <<File(Str_x, "ok", 3, 2, <<0, 1, 3, 2>>)>>
    /\ CropSize = <<3, 1>>
    /\ cell_width = 5 /\ cell_height = 5

\* C18: in every run that reaches composition, with or without a grid
\* override, cols*rows >= the number of valid images; while images remain
\* the 'grid is full' test (idx >= cols*rows) is false, so the loop ends
\* only by exhausting the list and every valid image has been given a cell.
C18_GridHoldsAllImages ==
    /\ (pc \in {"canvas", "place", "save", "done"}) => cols * rows >= num_images
    /\ (pc = "place" /\ idx < num_images) => idx < cols * rows
    /\ (pc \in {"save", "done"}) => idx = num_images

C18_Witness ==
    /\ pc = "done"
    /\ args.grid_size = <<3>>
    /\ num_images = 9
    /\ cols * rows = 9
    /\ idx = 9
    /\ Placed = 1..9

GlobalBBox == args.autocrop /\ ~args.fixed_center

\* The decodable images in which getbbox() finds no content.
WithoutContent ==
    {k \in 1..Len(valid_images) :
        valid_images[k].kind = "ok" /\ valid_images[k].bbox = None}

\* C19: under GlobalBBox an image without a bbox does not contribute to the
\* union box and, when other images have content, is skipped at placement:
\* nothing is cropped or pasted for it.
C19_EmptyImageSkipped ==
    (GlobalBBox /\ WithContent # {}) =>
        /\ pc \in {"pad", "canvas", "place", "save", "done"} =>
              gbox = UnionOf(WithContent)
        /\ Placing => \A k \in WithoutContent : ~pastes[k].done

\* C19 (amended): under GlobalBBox an image without a bbox does not
\* contribute to the union box and the cell size, but when other images
\* have content it is handled at placement like every decodable image: it
\* is cropped to the union box and the crop is pasted, centred, in the cell
\* of its own list position.
C19_EmptyImageCroppedAndPasted ==
    (GlobalBBox /\ WithContent # {}) =>
        /\ pc \in {"pad", "canvas", "place", "save", "done"} =>
              /\ gbox = UnionOf(WithContent)
              /\ crop_box = [tag |-> "BOX", a |-> gbox.l, b |-> gbox.t,
                             c |-> gbox.r, d |-> gbox.b]
        /\ Placing =>
              \A k \in WithoutContent :
                  k <= idx =>
                      /\ pastes[k].done
                      /\ pastes[k].cropped
                      /\ pastes[k].w = gbox.r - gbox.l
                      /\ pastes[k].h = gbox.b - gbox.t
                      /\ AtOwnPosition(k)

C19_Witness ==
    /\ pc = "done"
    /\ GlobalBBox
    /\ args.padding = 0 /\ ~args.square
    /\ valid_images = << File(Str_x, "ok", 3, 2, <<1, 0, 3, 1>>),
                         File(Str_x, "ok", 3, 2, None) >>
    /\ cell_width = 2 /\ cell_height = 1
    /\ pastes[2].done /\ pastes[2].cropped
    /\ pastes[2].x = 2 /\ pastes[2].w = 2

\* ------------------------------------------------------------------------
\* The shape of the default grid (checked under SpecDims)
\* ------------------------------------------------------------------------
\* C20: for every count >= 1 the default grid is near-square and never
\* taller than wide, cols - 1 <= rows <= cols, and its last row is not
\* empty, (rows - 1)*cols < count.
C20_NearSquareGrid ==
    (dimOut # None /\ dimIn >= 1) =>
        /\ dimOut[1] - 1 <= dimOut[2]
        /\ dimOut[2] <= dimOut[1]
        /\ (dimOut[2] - 1) * dimOut[1] < dimIn

C20_Witness == dimIn = 91 /\ dimOut = <<10, 10>>

====
